---- MODULE Spec2Model ----
(***************************************************************************)
(* linted-paths: project-root discovery, the runtime path validators, the  *)
(* static path checker (PathLinter) and the language-service plugin.       *)
(*                                                                         *)
(* Strings are sequences of UTF-16 code units (naturals), so that          *)
(* startsWith, trim, the invalid-character class and the path functions    *)
(* of node's posix `path` module are computed, not assumed.                *)
(***************************************************************************)
EXTENDS Naturals, Integers, Sequences, FiniteSets, TLC

VARIABLES
    cwd,        \* process.cwd(): an absolute, normalized directory path
    fs,         \* the paths that exist on the filesystem (absolute, normalized)
    findCall,   \* the last findProjectRoot(startDir) call made in this environment
    lastGet,    \* outcome of the last getProjectRoot() call made in this environment
    prevGet,    \* outcome of the getProjectRoot() call before it, same environment
    walking,    \* the findProjectRoot call in progress, loop iteration by iteration
    vcall,      \* the last validator call: function, candidate, message
    vres,       \* its outcome: returned value or thrown error
    program,    \* the ts.Program handed to the linter: its source files
    linter,     \* the PathLinter instance (projectRoot, options), or NoLinter; where
                \* only the constructor is called, the error it threw
    runs,       \* per severity, the diagnostics of the last run() with it
    service,    \* the wrapped language service: its properties
    proxy,      \* whether plugin.create(info) has returned the Proxy
    lastProp,   \* the last property read through the Proxy and what it gave
    lastDiag    \* the last getSemanticDiagnostics(fileName) call through the Proxy

vars == <<cwd, fs, findCall, lastGet, prevGet, walking, vcall, vres, program, linter,
          runs, service, proxy, lastProp, lastDiag>>

----------------------------------------------------------------------------
\* Bounds of the model

\* validator candidates are concatenations of at most MaxTokens tokens
MaxTokens == 3
\* at most MaxMarkerFiles marker files exist at once in the resolver runs
MaxMarkerFiles == 2
\* a source file holds at most MaxDecls nodes
MaxDecls == 1
\* a walk of findProjectRoot is followed for at most MaxIterations loop bodies
MaxIterations == 4

----------------------------------------------------------------------------
\* Characters and strings

SLASH == 47
DOT == 46

None == [kind |-> "none"]

Str(s) == [type |-> "string", chars |-> s]
Undefined == [type |-> "undefined", chars |-> <<>>]
Null == [type |-> "null", chars |-> <<>>]

\* String.prototype.startsWith
startsWith(s, p) == Len(p) <= Len(s) /\ SubSeq(s, 1, Len(p)) = p

\* ECMAScript WhiteSpace and LineTerminator code units, as String.prototype.trim
\* strips them
IsWhiteSpace(c) ==
    \/ c \in {9, 10, 11, 12, 13, 32, 160, 5760, 8232, 8233, 8239, 8287, 12288, 65279}
    \/ c \in 8192..8202

\* !pathStr.trim() : the string is empty once whitespace is trimmed from both ends
TrimIsEmpty(s) == \A i \in 1..Len(s) : IsWhiteSpace(s[i])

\* the character class without its control range \x00-\x1f
invalidChars_NoControl(s) ==
    \E i \in 1..Len(s) : s[i] \in {60, 62, 58, 34, 124, 63, 42}

\* /[<>:"|?*\x00-\x1f]/.test(s)
invalidChars(s) ==
    \E i \in 1..Len(s) : s[i] \in {60, 62, 58, 34, 124, 63, 42} \/ s[i] \in 0..31

----------------------------------------------------------------------------
\* node's posix path module, as this program calls it

RECURSIVE SplitAcc(_, _, _)
SplitAcc(s, i, cur) ==
    IF i > Len(s) THEN <<cur>>
    ELSE IF s[i] = SLASH THEN <<cur>> \o SplitAcc(s, i + 1, <<>>)
    ELSE SplitAcc(s, i + 1, Append(cur, s[i]))

\* the '/'-separated pieces of s, empty pieces included
Split(s) == SplitAcc(s, 1, <<>>)

RECURSIVE JoinSegs(_)
JoinSegs(segs) ==
    IF Len(segs) = 0 THEN <<>>
    ELSE IF Len(segs) = 1 THEN segs[1]
    ELSE segs[1] \o <<SLASH>> \o JoinSegs(Tail(segs))

RECURSIVE NormAcc(_, _, _, _)
NormAcc(segs, i, res, allowAboveRoot) ==
    IF i > Len(segs) THEN res
    ELSE LET g == segs[i] IN
         IF g = <<>> \/ g = <<DOT>> THEN NormAcc(segs, i + 1, res, allowAboveRoot)
         ELSE IF g = <<DOT, DOT>> THEN
              IF Len(res) > 0 /\ res[Len(res)] # <<DOT, DOT>>
              THEN NormAcc(segs, i + 1, SubSeq(res, 1, Len(res) - 1), allowAboveRoot)
              ELSE IF allowAboveRoot
                   THEN NormAcc(segs, i + 1, Append(res, g), allowAboveRoot)
                   ELSE NormAcc(segs, i + 1, res, allowAboveRoot)
         ELSE NormAcc(segs, i + 1, Append(res, g), allowAboveRoot)

\* normalizeString: the segments left after '.', '' and '..' are resolved
normalizeSegs(s, allowAboveRoot) == NormAcc(Split(s), 1, <<>>, allowAboveRoot)

\* path.isAbsolute
isAbsolute(p) == Len(p) > 0 /\ p[1] = SLASH

\* path.normalize
normalize(p) ==
    IF Len(p) = 0 THEN <<DOT>>
    ELSE LET abs == isAbsolute(p)
             trailing == p[Len(p)] = SLASH
             body == JoinSegs(normalizeSegs(p, ~abs))
         IN IF Len(body) = 0
            THEN (IF abs THEN <<SLASH>> ELSE IF trailing THEN <<DOT, SLASH>> ELSE <<DOT>>)
            ELSE (IF abs THEN <<SLASH>> ELSE <<>>) \o body
                 \o (IF trailing THEN <<SLASH>> ELSE <<>>)

\* path.join(a, b)
join(a, b) ==
    IF Len(a) = 0 /\ Len(b) = 0 THEN <<DOT>>
    ELSE IF Len(a) = 0 THEN normalize(b)
    ELSE IF Len(b) = 0 THEN normalize(a)
    ELSE normalize(a \o <<SLASH>> \o b)

\* path.resolve(a, b) in working directory wd: arguments are taken from the
\* right until one is absolute, then the working directory
resolve(wd, a, b) ==
    LET s1 == b
        abs1 == isAbsolute(b)
        s2 == IF abs1 \/ Len(a) = 0 THEN s1 ELSE a \o <<SLASH>> \o s1
        abs2 == abs1 \/ isAbsolute(a)
        s3 == IF abs2 THEN s2 ELSE wd \o <<SLASH>> \o s2
    IN <<SLASH>> \o JoinSegs(normalizeSegs(s3, FALSE))

RECURSIVE CommonLen(_, _, _)
CommonLen(a, b, i) ==
    IF i <= Len(a) /\ i <= Len(b) /\ a[i] = b[i] THEN CommonLen(a, b, i + 1) ELSE i - 1

\* path.relative(from, to)
relative(wd, from, to) ==
    IF from = to THEN <<>>
    ELSE LET f == normalizeSegs(resolve(wd, <<>>, from), FALSE)
             t == normalizeSegs(resolve(wd, <<>>, to), FALSE)
             n == CommonLen(f, t, 1)
         IN JoinSegs([i \in 1..(Len(f) - n) |-> <<DOT, DOT>>] \o SubSeq(t, n + 1, Len(t)))

\* path.dirname
dirname(p) ==
    IF Len(p) = 0 THEN <<DOT>>
    ELSE LET hasRoot == p[1] = SLASH
             \* the positions i >= 2 holding a '/' that follows a non-'/' at some j > i
             ends == {i \in 2..Len(p) : p[i] = SLASH /\ \E j \in (i + 1)..Len(p) : p[j] # SLASH}
             \* scanning from the right, the first such separator is the largest
             end == CHOOSE i \in ends : \A k \in ends : k <= i
         IN IF ends = {} THEN (IF hasRoot THEN <<SLASH>> ELSE <<DOT>>)
            ELSE IF hasRoot /\ end = 2 THEN <<SLASH, SLASH>>
            ELSE SubSeq(p, 1, end - 1)

\* fs.existsSync(p) with working directory wd on filesystem files
existsSync(files, wd, p) == resolve(wd, <<>>, p) \in files

----------------------------------------------------------------------------
\* Project-root resolver (utils/project-root.ts)

markers ==
    << <<46, 103, 105, 116>>,                                            \* .git
       <<112, 97, 99, 107, 97, 103, 101, 46, 106, 115, 111, 110>>,       \* package.json
       <<121, 97, 114, 110, 46, 108, 111, 99, 107>>,                     \* yarn.lock
       <<112, 110, 112, 109, 45, 108, 111, 99, 107, 46, 121, 97, 109, 108>>, \* pnpm-lock.yaml
       <<112, 97, 99, 107, 97, 103, 101, 45, 108, 111, 99, 107, 46, 106, 115, 111, 110>>, \* package-lock.json
       <<108, 101, 114, 110, 97, 46, 106, 115, 111, 110>>,               \* lerna.json
       <<110, 120, 46, 106, 115, 111, 110>>,                             \* nx.json
       <<119, 111, 114, 107, 115, 112, 97, 99, 101, 46, 106, 115, 111, 110>> >> \* workspace.json

Returned(v) == [kind |-> "return", value |-> v]
Threw(m) == [kind |-> "throw", value |-> m]

NotFoundMessage ==
    "Could not find project root. Make sure you are in a project directory with package.json or .git"

\* anyMarkerExists probing the directory itself, the marker name left out
anyMarkerExists_NoJoin(files, wd, dir) ==
    \E k \in 1..Len(markers) : existsSync(files, wd, dir)

\* the for loop over markers: some marker exists in dir
anyMarkerExists(files, wd, dir) ==
    \E k \in 1..Len(markers) : existsSync(files, wd, join(dir, markers[k]))

\* the while loop, from currentDir
RECURSIVE walk(_, _, _)
walk(files, wd, currentDir) ==
    IF currentDir # dirname(currentDir)
    THEN IF anyMarkerExists(files, wd, currentDir)
         THEN Returned(currentDir)
         ELSE walk(files, wd, dirname(currentDir))
    ELSE Threw(NotFoundMessage)

\* findProjectRoot(startDir?): startDir || process.cwd()
findProjectRoot(files, wd, startDir) ==
    walk(files, wd, IF startDir.type = "string" /\ Len(startDir.chars) > 0
                    THEN startDir.chars ELSE wd)

\* getProjectRoot()
getProjectRoot(files, wd) == findProjectRoot(files, wd, Undefined)

----------------------------------------------------------------------------
\* The environment: directories, working directory, marker files

DirRoot == <<47>>                   \* "/"
DirA == <<47, 97>>                  \* "/a"
DirAA == <<47, 97, 47, 97>>         \* "/a/a"
DirAB == <<47, 97, 98>>             \* "/ab", a sibling of /a that has "/a" as a string prefix

\* the directories of the model; they always exist
Dirs == {DirRoot, DirA, DirAA, DirAB}

\* the directories process.cwd() ranges over in the resolver runs
WorkDirs == {DirRoot, DirA, DirAA}

\* the marker files the filesystem may hold: every marker name occurs, every
\* working directory can be marked, some by more than one name
MarkerSites ==
    {<<DirRoot, 1>>, <<DirRoot, 2>>,
     <<DirA, 2>>, <<DirA, 3>>, <<DirA, 7>>, <<DirA, 8>>,
     <<DirAA, 1>>, <<DirAA, 4>>, <<DirAA, 5>>, <<DirAA, 6>>}

AllMarkerFiles == {join(m[1], markers[m[2]]) : m \in MarkerSites}

\* the marker files of the filesystem
MarkerFilesOf(files) == files \cap AllMarkerFiles

\* the startDir arguments of findProjectRoot: omitted, empty, a directory, a
\* directory written with a trailing separator
StartDirs ==
    {Undefined, Str(<<>>)} \cup {Str(d) : d \in WorkDirs} \cup {Str(DirAA \o <<SLASH>>)}

NoProgram == <<>>
NoLinter == [kind |-> "none"]
\* the options a run takes: none, or a severity
RunOptions == {"absent", "error", "warn", "off"}
NoRuns == [o \in RunOptions |-> None]
NoService == [kind |-> "none"]

\* the variables of the validators, the linter and the plugin, at rest
RestOfValidators == vcall = None /\ vres = None
RestOfLinter == program = NoProgram /\ linter = NoLinter /\ runs = NoRuns
RestOfPlugin == service = NoService /\ proxy = FALSE /\ lastProp = None /\ lastDiag = None
RestOfResolver == findCall = None /\ lastGet = None /\ prevGet = None /\ walking = None

validatorVars == <<vcall, vres>>
linterVars == <<program, linter, runs>>
pluginVars == <<service, proxy, lastProp, lastDiag>>
resolverVars == <<findCall, lastGet, prevGet, walking>>

----------------------------------------------------------------------------
\* Resolver runs: the environment changes between calls of findProjectRoot
\* and getProjectRoot

InitRoot ==
    /\ cwd \in WorkDirs
    /\ fs = Dirs
    /\ RestOfResolver /\ RestOfValidators /\ RestOfLinter /\ RestOfPlugin

\* a marker file or directory is created in a directory
WriteMarker(p) ==
    /\ Cardinality(MarkerFilesOf(fs)) < MaxMarkerFiles
    /\ p \notin fs
    /\ fs' = fs \cup {p}
    /\ findCall' = None /\ lastGet' = None /\ prevGet' = None
    /\ UNCHANGED <<cwd, walking, validatorVars, linterVars, pluginVars>>

\* a marker is removed
RemoveMarker(p) ==
    /\ p \in MarkerFilesOf(fs)
    /\ fs' = fs \ {p}
    /\ findCall' = None /\ lastGet' = None /\ prevGet' = None
    /\ UNCHANGED <<cwd, walking, validatorVars, linterVars, pluginVars>>

\* process.chdir(d)
Chdir(d) ==
    /\ d # cwd
    /\ cwd' = d
    /\ findCall' = None /\ lastGet' = None /\ prevGet' = None
    /\ UNCHANGED <<fs, walking, validatorVars, linterVars, pluginVars>>

\* a call findProjectRoot(startDir)
CallFindProjectRoot(startDir) ==
    /\ findCall' = [startDir |-> startDir, result |-> findProjectRoot(fs, cwd, startDir)]
    /\ UNCHANGED <<cwd, fs, lastGet, prevGet, walking, validatorVars, linterVars, pluginVars>>

\* a call getProjectRoot()
CallGetProjectRoot ==
    /\ prevGet' = lastGet
    /\ lastGet' = getProjectRoot(fs, cwd)
    /\ UNCHANGED <<cwd, fs, findCall, walking, validatorVars, linterVars, pluginVars>>

NextRoot ==
    \/ \E p \in AllMarkerFiles : WriteMarker(p)
    \/ \E p \in AllMarkerFiles : RemoveMarker(p)
    \/ \E d \in WorkDirs : Chdir(d)
    \/ \E s \in StartDirs : CallFindProjectRoot(s)
    \/ CallGetProjectRoot

SpecRoot == InitRoot /\ [][NextRoot]_vars

----------------------------------------------------------------------------
\* What the claims about the resolver speak of, stated without the loop

\* name as a direct child of directory d
ChildOf(d, name) == IF d = <<SLASH>> THEN d \o name ELSE d \o <<SLASH>> \o name

\* d has at least one recognized marker as a direct child
HasMarkerChild(files, d) == \E k \in 1..Len(markers) : ChildOf(d, markers[k]) \in files

\* the directory an absolute path names, trailing separators dropped
DirOf(p) == <<SLASH>> \o JoinSegs(SelectSeq(Split(p), LAMBDA g : g # <<>>))

\* d and all of its ancestors, the filesystem root included
AncestorsOrSelf(d) ==
    LET segs == SelectSeq(Split(d), LAMBDA g : g # <<>>)
    IN {<<SLASH>> \o JoinSegs(SubSeq(segs, 1, n)) : n \in 0..Len(segs)}

\* the directory findProjectRoot(startDir) starts from
StartOf(startDir) ==
    IF startDir.type = "string" /\ startDir.chars # <<>> THEN DirOf(startDir.chars) ELSE cwd

\* the marked directories among the start directory and its ancestors
MarkedFrom(startDir) == {d \in AncestorsOrSelf(StartOf(startDir)) : HasMarkerChild(fs, d)}

\* the nearest of them: the longest path
Nearest(S) == CHOOSE d \in S : \A e \in S : Len(e) <= Len(d)

\* C5: findProjectRoot(startDir) returns the nearest directory among startDir
\* and all of its ancestors that contains a marker, and fails with the
\* NotFound error exactly when none of those directories contains one.
C5_NearestMarkedAncestor ==
    findCall # None =>
        IF MarkedFrom(findCall.startDir) = {}
        THEN findCall.result = Threw(NotFoundMessage)
        ELSE /\ findCall.result.kind = "return"
             /\ DirOf(findCall.result.value) = Nearest(MarkedFrom(findCall.startDir))

\* C6: repeated getProjectRoot() calls with the working directory and the
\* filesystem unchanged give the same outcome, and every returned value is a
\* directory with at least one recognized marker as a direct child.
C6_GetProjectRootIdempotent ==
    /\ (prevGet # None => lastGet = prevGet)
    /\ (lastGet # None /\ lastGet.kind = "return" =>
            /\ lastGet.value \in Dirs
            /\ lastGet.value \in fs
            /\ HasMarkerChild(fs, lastGet.value))

\* C6 witness: two calls in the same environment, both returning a root that
\* is an ancestor of the working directory
C6_Witness ==
    /\ prevGet # None /\ prevGet.kind = "return"
    /\ lastGet # None /\ lastGet.kind = "return"
    /\ lastGet.value # cwd

----------------------------------------------------------------------------
\* findProjectRoot one loop iteration at a time

\* the startDir arguments of a walk: those of StartDirs, and relative ones
WalkStartDirs == StartDirs \cup {Str(<<97, 47, 97>>), Str(<<DOT>>)}

\* let currentDir = startDir || process.cwd()
begin(wd, startDir) ==
    [startDir |-> startDir,
     currentDir |-> IF startDir.type = "string" /\ Len(startDir.chars) > 0
                    THEN startDir.chars ELSE wd,
     iterations |-> 0,
     pc |-> "while"]

\* every text currentDir can hold: the start directories and their dirname chains
RECURSIVE chain(_)
chain(d) == IF d = dirname(d) THEN {d} ELSE {d} \cup chain(dirname(d))
WalkDirs == UNION {chain(begin(wd, s).currentDir) : wd \in WorkDirs, s \in WalkStartDirs}

\* path.dirname(currentDir), and the paths fs.existsSync is asked about for
\* path.join(currentDir, marker), tabulated over those texts
dirnameOf == [d \in WalkDirs |-> dirname(d)]
probesOf ==
    [wd \in WorkDirs |->
        [d \in WalkDirs |->
            {resolve(wd, <<>>, join(d, markers[k])) : k \in 1..Len(markers)}]]

\* the loop body with the assignment currentDir = path.dirname(currentDir) left out
iterate_NoAscent(files, wd, w) ==
    IF probesOf[wd][w.currentDir] \cap files # {}
    THEN [w EXCEPT !.pc = "returned", !.iterations = @ + 1]
    ELSE [w EXCEPT !.iterations = @ + 1]

\* the loop body: the for loop over the markers, then the step to the parent
iterate(files, wd, w) ==
    IF probesOf[wd][w.currentDir] \cap files # {}
    THEN [w EXCEPT !.pc = "returned", !.iterations = @ + 1]
    ELSE [w EXCEPT !.currentDir = dirnameOf[w.currentDir], !.iterations = @ + 1]

InitWalk ==
    /\ cwd \in WorkDirs
    /\ fs = Dirs
    /\ RestOfResolver /\ RestOfValidators /\ RestOfLinter /\ RestOfPlugin

\* findProjectRoot(startDir) is called
WalkBegin(startDir) ==
    /\ walking = None
    /\ walking' = begin(cwd, startDir)
    /\ UNCHANGED <<cwd, fs, findCall, lastGet, prevGet, validatorVars, linterVars, pluginVars>>

\* the while condition holds: one loop body
WalkIterate ==
    /\ walking # None /\ walking.pc = "while"
    /\ walking.iterations < MaxIterations
    /\ walking.currentDir # dirnameOf[walking.currentDir]
    /\ walking' = iterate(fs, cwd, walking)
    /\ UNCHANGED <<cwd, fs, findCall, lastGet, prevGet, validatorVars, linterVars, pluginVars>>

\* the while condition fails: throw new Error(...)
WalkThrow ==
    /\ walking # None /\ walking.pc = "while"
    /\ walking.currentDir = dirnameOf[walking.currentDir]
    /\ walking' = [walking EXCEPT !.pc = "threw"]
    /\ UNCHANGED <<cwd, fs, findCall, lastGet, prevGet, validatorVars, linterVars, pluginVars>>

\* the call has ended and its caller goes on
WalkEnded ==
    /\ walking # None /\ walking.pc \in {"returned", "threw"}
    /\ walking' = None
    /\ UNCHANGED <<cwd, fs, findCall, lastGet, prevGet, validatorVars, linterVars, pluginVars>>

\* between calls the environment changes; the call itself is synchronous
NextWalk ==
    \/ \E s \in WalkStartDirs : WalkBegin(s)
    \/ WalkIterate
    \/ WalkThrow
    \/ WalkEnded
    \/ (walking = None /\ \E p \in AllMarkerFiles : WriteMarker(p))
    \/ (walking = None /\ \E p \in AllMarkerFiles : RemoveMarker(p))
    \/ (walking = None /\ \E d \in WorkDirs : Chdir(d))

SpecWalk == InitWalk /\ [][NextWalk]_vars

\* a call that has started runs on: the loop is synchronous code
SpecWalkFair == SpecWalk /\ WF_vars(WalkIterate \/ WalkThrow)

----------------------------------------------------------------------------
\* What the claim about the walk speaks of

\* the named segments of a path: neither empty nor "."
NamedSegments(p) == SelectSeq(Split(p), LAMBDA g : g # <<>> /\ g # <<DOT>>)

\* how many ancestors a directory has
AncestorCount(p) == Len(NamedSegments(p))

\* the parent of a directory: its path without the last named segment
ParentOf(p) ==
    LET segs == NamedSegments(p)
        front == SubSeq(segs, 1, Len(segs) - 1)
    IN IF p # <<>> /\ p[1] = SLASH THEN <<SLASH>> \o JoinSegs(front)
       ELSE IF front = <<>> THEN <<DOT>>
       ELSE JoinSegs(front)

\* the directory a walk started from
WalkStart == IF walking.startDir.type = "string" /\ walking.startDir.chars # <<>>
             THEN walking.startDir.chars ELSE cwd

Walking == walking # None
WalkDone == Walking /\ walking.pc \in {"returned", "threw"}

\* C14, at every point of a call: no more loop bodies have run than the start
\* directory has ancestors, the loop is never stuck, a call that failed has
\* reached a directory that is its own parent, and a call that returned gives
\* the directory it stood at
C14_WalkBounded ==
    Walking =>
        /\ walking.iterations + AncestorCount(walking.currentDir)
              <= AncestorCount(WalkStart) + (IF walking.pc = "returned" THEN 1 ELSE 0)
        /\ walking.iterations <= AncestorCount(WalkStart)
        /\ walking.pc = "while" => ENABLED (WalkIterate \/ WalkThrow)
        /\ walking.pc = "threw" =>
              /\ walking.currentDir \in {<<SLASH>>, <<DOT>>}
              /\ ParentOf(walking.currentDir) = walking.currentDir
        /\ walking.pc = "returned" =>
              findProjectRoot(fs, cwd, walking.startDir) = Returned(walking.currentDir)
        /\ walking.pc = "threw" =>
              findProjectRoot(fs, cwd, walking.startDir) = Threw(NotFoundMessage)

\* C14, at every step of a call: the step returns the current directory,
\* replaces it with its strict parent, or fails at a directory that is its
\* own parent; it leaves the filesystem and the working directory as they were
C14_WalkStep ==
    (Walking /\ walking' # walking) =>
        /\ fs' = fs /\ cwd' = cwd
        /\ (walking.pc = "while" /\ walking' # None) =>
              \/ /\ walking'.pc = "returned"
                 /\ walking'.currentDir = walking.currentDir
              \/ /\ walking'.pc = "while"
                 /\ walking'.currentDir = ParentOf(walking.currentDir)
                 /\ walking'.currentDir # walking.currentDir
                 /\ AncestorCount(walking'.currentDir) < AncestorCount(walking.currentDir)
              \/ /\ walking'.pc = "threw"
                 /\ walking'.currentDir = walking.currentDir
                 /\ ParentOf(walking.currentDir) = walking.currentDir

\* C14: findProjectRoot terminates for every start directory: each iteration
\* either returns the current directory or replaces it with its strict parent,
\* after at most as many iterations as the start directory has ancestors the
\* walk reaches a directory equal to its own parent, every call ends by
\* returning a directory or by failing with the NotFound error, and the call
\* only probes for existence and writes nothing.
C14_WalkTerminates ==
    /\ []C14_WalkBounded
    /\ [][C14_WalkStep]_vars
    /\ ((Walking /\ walking.pc = "while") ~> WalkDone)

\* C14 witness: a walk that started two directories below / has found no
\* marker and failed at / after two loop bodies
C14_Witness ==
    /\ Walking
    /\ walking.pc = "threw"
    /\ walking.currentDir = DirRoot
    /\ AncestorCount(WalkStart) = 2
    /\ walking.iterations = 2

----------------------------------------------------------------------------
\* Path validators (index.ts)

\* an optional errorMessage argument
NoMsg == [type |-> "undefined", text |-> ""]
Msg(t) == [type |-> "string", text |-> t]

\* errorMessage || dflt
OrDefault(errorMessage, dflt) ==
    IF errorMessage.type = "string" /\ errorMessage.text # "" THEN errorMessage.text ELSE dflt

\* validatePath with the containment check applied to every candidate, not
\* only to those starting with ./ or ../
validatePath_AlwaysContained(files, wd, pathStr, errorMessage) ==
    IF pathStr.type # "string" THEN Threw(errorMessage)
    ELSE IF TrimIsEmpty(pathStr.chars) THEN Threw(errorMessage)
    ELSE IF invalidChars(pathStr.chars)
         THEN Threw(errorMessage \o ": contains invalid characters")
    ELSE LET first == getProjectRoot(files, wd)
         IN IF first.kind = "throw" THEN first
            ELSE IF ~startsWith(resolve(wd, first.value, pathStr.chars), first.value)
                 THEN Threw(errorMessage \o ": path escapes project root")
                 ELSE Returned(Undefined)

\* validatePath with the containment check made before the character check
validatePath_ContainmentFirst(files, wd, pathStr, errorMessage) ==
    IF pathStr.type # "string" THEN Threw(errorMessage)
    ELSE IF TrimIsEmpty(pathStr.chars) THEN Threw(errorMessage)
    ELSE LET starts == startsWith(pathStr.chars, <<DOT, SLASH>>)
                          \/ startsWith(pathStr.chars, <<DOT, DOT, SLASH>>)
             first == getProjectRoot(files, wd)
         IN IF starts /\ first.kind = "throw" THEN first
            ELSE IF starts /\ ~startsWith(resolve(wd, first.value, pathStr.chars), first.value)
                 THEN Threw(errorMessage \o ": path escapes project root")
            ELSE IF invalidChars(pathStr.chars)
                 THEN Threw(errorMessage \o ": contains invalid characters")
            ELSE Returned(Undefined)

\* validatePath reporting a missing project root with the caller's message
validatePath_RootErrorAsCaller(files, wd, pathStr, errorMessage) ==
    IF pathStr.type # "string" THEN Threw(errorMessage)
    ELSE IF TrimIsEmpty(pathStr.chars) THEN Threw(errorMessage)
    ELSE IF invalidChars(pathStr.chars)
         THEN Threw(errorMessage \o ": contains invalid characters")
    ELSE IF startsWith(pathStr.chars, <<DOT, SLASH>>)
            \/ startsWith(pathStr.chars, <<DOT, DOT, SLASH>>)
         THEN LET first == getProjectRoot(files, wd)
              IN IF first.kind = "throw" THEN Threw(errorMessage)
                 ELSE IF ~startsWith(resolve(wd, first.value, pathStr.chars), first.value)
                      THEN Threw(errorMessage \o ": path escapes project root")
                      ELSE Returned(Undefined)
    ELSE Returned(Undefined)

\* validatePath(pathStr, errorMessage): returns undefined or throws
validatePath(files, wd, pathStr, errorMessage) ==
    IF pathStr.type # "string" THEN Threw(errorMessage)
    ELSE IF TrimIsEmpty(pathStr.chars) THEN Threw(errorMessage)
    ELSE IF invalidChars(pathStr.chars)
         THEN Threw(errorMessage \o ": contains invalid characters")
    ELSE IF startsWith(pathStr.chars, <<DOT, SLASH>>)
            \/ startsWith(pathStr.chars, <<DOT, DOT, SLASH>>)
         THEN LET first == getProjectRoot(files, wd)
                  second == getProjectRoot(files, wd)
              IN IF first.kind = "throw" THEN first
                 ELSE LET resolvedPath == resolve(wd, first.value, pathStr.chars)
                          projectRoot == second.value
                      IN IF ~startsWith(resolvedPath, projectRoot)
                         THEN Threw(errorMessage \o ": path escapes project root")
                         ELSE Returned(Undefined)
    ELSE Returned(Undefined)

\* the body shared by the three exported validators: validate, then return pathStr
validated(files, wd, pathStr, message) ==
    LET r == validatePath(files, wd, pathStr, message)
    IN IF r.kind = "throw" THEN r ELSE Returned(pathStr)

FilePath(files, wd, pathStr, errorMessage) ==
    validated(files, wd, pathStr, OrDefault(errorMessage, "Invalid file path"))

FolderPath(files, wd, pathStr, errorMessage) ==
    validated(files, wd, pathStr, OrDefault(errorMessage, "Invalid folder path"))

AnyPath(files, wd, pathStr, errorMessage) ==
    validated(files, wd, pathStr, OrDefault(errorMessage, "Invalid path"))

----------------------------------------------------------------------------
\* Validator runs: one environment, calls of the three validators

\* the pieces candidates are made of:  ./  ../  ..  /  a  ab  space  <  TAB
Tokens ==
    {<<46, 47>>, <<46, 46, 47>>, <<46, 46>>, <<47>>, <<97>>, <<97, 98>>, <<32>>, <<60>>, <<9>>}

RECURSIVE Concats(_)
Concats(n) ==
    IF n = 0 THEN {<<>>}
    ELSE LET shorter == Concats(n - 1)
         IN shorter \cup {s \o t : s \in shorter, t \in Tokens}

\* the candidate arguments: strings, and values that are not strings
Candidates == {Str(s) : s \in Concats(MaxTokens)} \cup {Null, Undefined, [type |-> "number", chars |-> <<>>]}

\* the errorMessage arguments: omitted, empty, custom
Messages == {NoMsg, Msg(""), Msg("Custom error")}

packageJsonIn(d) == ChildOf(d, markers[2])

\* working directory and filesystem of a validator run: the root is the working
\* directory, an ancestor of it, or there is none
ValidatorEnvs ==
    {<<DirA, Dirs \cup {packageJsonIn(DirA)}>>,
     <<DirAA, Dirs \cup {packageJsonIn(DirA)}>>,
     <<DirAA, Dirs \cup {packageJsonIn(DirAA), packageJsonIn(DirA)}>>,
     <<DirA, Dirs>>}

InitValidate ==
    /\ \E e \in ValidatorEnvs : cwd = e[1] /\ fs = e[2]
    /\ RestOfResolver /\ RestOfValidators /\ RestOfLinter /\ RestOfPlugin

CallFilePath ==
    /\ vcall = None
    /\ \E c \in Candidates, m \in Messages :
          /\ vcall' = [fn |-> "FilePath", pathStr |-> c, errorMessage |-> m]
          /\ vres' = FilePath(fs, cwd, c, m)
    /\ UNCHANGED <<cwd, fs, resolverVars, linterVars, pluginVars>>

CallFolderPath ==
    /\ vcall = None
    /\ \E c \in Candidates, m \in Messages :
          /\ vcall' = [fn |-> "FolderPath", pathStr |-> c, errorMessage |-> m]
          /\ vres' = FolderPath(fs, cwd, c, m)
    /\ UNCHANGED <<cwd, fs, resolverVars, linterVars, pluginVars>>

CallAnyPath ==
    /\ vcall = None
    /\ \E c \in Candidates, m \in Messages :
          /\ vcall' = [fn |-> "AnyPath", pathStr |-> c, errorMessage |-> m]
          /\ vres' = AnyPath(fs, cwd, c, m)
    /\ UNCHANGED <<cwd, fs, resolverVars, linterVars, pluginVars>>

\* the caller has taken the outcome; the next call can be made
ValidatorReturned ==
    /\ vcall # None
    /\ vcall' = None /\ vres' = None
    /\ UNCHANGED <<cwd, fs, resolverVars, linterVars, pluginVars>>

NextValidate ==
    \/ CallFilePath
    \/ CallFolderPath
    \/ CallAnyPath
    \/ ValidatorReturned

SpecValidate == InitValidate /\ [][NextValidate]_vars

----------------------------------------------------------------------------
\* Static path checker (linter.ts): the syntax it reads

\* ts.EntityName
Identifier(t) == [kind |-> "Identifier", text |-> t]
QualifiedName(l, r) == [kind |-> "QualifiedName", left |-> l, right |-> r]

\* ts.TypeNode; a declaration without annotation has type NoType
TypeReference(name) == [kind |-> "TypeReference", typeName |-> name]
KeywordType(k) == [kind |-> k]
NoType == [kind |-> "undefined"]

\* initializer expressions; a declaration without one has NoInitializer
StringLiteral(t) == [kind |-> "StringLiteral", text |-> t]
NumericLiteral == [kind |-> "NumericLiteral", text |-> <<52, 50>>]
TemplateLiteral(t) == [kind |-> "NoSubstitutionTemplateLiteral", text |-> t]
NoInitializer == [kind |-> "undefined", text |-> <<>>]

\* ts.VariableDeclaration; start is initializer.getStart(), set when the node
\* is placed in a file, and the width of a literal is its text and two quotes
VariableDeclaration(t, init) ==
    [kind |-> "VariableDeclaration", type |-> t, initializer |-> init, start |-> 0]
\* type FilePathStr = string;  a node that is no variable declaration
TypeAliasDeclaration ==
    [kind |-> "TypeAliasDeclaration", type |-> KeywordType("StringKeyword"),
     initializer |-> NoInitializer, start |-> 0]
getWidth(init) == Len(init.text) + 2

\* a source file: its nodes in the order visit reaches them
SourceFile(name, isDecl, nodeSeq) ==
    [fileName |-> name, isDeclarationFile |-> isDecl,
     nodes |-> [k \in 1..Len(nodeSeq) |-> [nodeSeq[k] EXCEPT !.start = 40 * k + 10]]]

----------------------------------------------------------------------------
\* Static path checker (linter.ts): PathLinter

\* the options argument: {} or {severity: ...}
NoOptions == [severity |-> "absent"]
Options(sev) == [severity |-> sev]

\* constructor: projectRoot = findProjectRoot(), options = {severity: 'error', ...options}
newPathLinter(files, wd, prog, options) ==
    LET root == findProjectRoot(files, wd, Undefined)
    IN IF root.kind = "throw" THEN root
       ELSE Returned([kind |-> "PathLinter",
                      program |-> prog,
                      projectRoot |-> root.value,
                      options |-> [severity |-> IF options.severity = "absent"
                                                THEN "error" ELSE options.severity]])

\* getSeverityCategory with 'off' falling through to the default
getSeverityCategory_OffIsDefault(lt) ==
    CASE lt.options.severity = "warn" -> "Warning"
      [] OTHER -> "Error"

\* getSeverityCategory
getSeverityCategory(lt) ==
    CASE lt.options.severity = "warn" -> "Warning"
      [] lt.options.severity = "off" -> "Suggestion"
      [] OTHER -> "Error"

\* the linter's own copy of the character class
linterInvalidChars(s) ==
    \E k \in 1..Len(s) : s[k] \in {60, 62, 58, 34, 124, 63, 42} \/ s[k] \in 0..31

\* isValidPath, lines 135-140: where the literal points
fullPathOf(lt, wd, pathValue) ==
    IF isAbsolute(pathValue) THEN pathValue
    ELSE resolve(wd, lt.projectRoot, pathValue)

\* isValidPath up to the existence probe: the literal is non-empty, has no
\* forbidden character and lies within the project root
passesBeforeExists(lt, wd, pathValue) ==
    IF pathValue = <<>> THEN FALSE
    ELSE IF linterInvalidChars(pathValue) THEN FALSE
    ELSE LET relativePath == relative(wd, lt.projectRoot, fullPathOf(lt, wd, pathValue))
         IN ~(startsWith(relativePath, <<DOT, DOT>>) \/ isAbsolute(relativePath))

\* isValidPath
isValidPath(lt, files, wd, pathValue) ==
    IF ~passesBeforeExists(lt, wd, pathValue) THEN FALSE
    ELSE existsSync(files, wd, fullPathOf(lt, wd, pathValue))

\* getTypeNameFromAST taking the leftmost segment of a qualified name
RECURSIVE getTypeNameFromAST_Left(_)
getTypeNameFromAST_Left(typeName) ==
    IF typeName.kind = "Identifier" THEN typeName.text
    ELSE IF typeName.kind = "QualifiedName" THEN getTypeNameFromAST_Left(typeName.left)
    ELSE ""

\* getTypeNameFromAST
RECURSIVE getTypeNameFromAST(_)
getTypeNameFromAST(typeName) ==
    IF typeName.kind = "Identifier" THEN typeName.text
    ELSE IF typeName.kind = "QualifiedName" THEN getTypeNameFromAST(typeName.right)
    ELSE ""

\* isPathType
isPathType(typeNode) ==
    IF typeNode.kind # "TypeReference" THEN FALSE
    ELSE LET typeName == getTypeNameFromAST(typeNode.typeName)
         IN typeName = "FilePathStr" \/ typeName = "FolderPathStr" \/ typeName = "AnyPathStr"

\* messageText: `Invalid path: "${pathValue}" does not exist or is not accessible`
messageText(pathValue) ==
    <<"Invalid path: \"", pathValue, "\" does not exist or is not accessible">>

\* checkVariableDeclaration: a diagnostic, or None for null
checkVariableDeclaration(lt, files, wd, file, node) ==
    IF node.initializer.kind # "StringLiteral" THEN None
    ELSE IF node.type = NoType THEN None
    ELSE IF ~isPathType(node.type) THEN None
    ELSE LET pathValue == node.initializer.text
         IN IF ~isValidPath(lt, files, wd, pathValue)
            THEN [kind |-> "Diagnostic",
                  category |-> getSeverityCategory(lt),
                  code |-> 1001,
                  messageText |-> messageText(pathValue),
                  file |-> file.fileName,
                  start |-> node.start,
                  length |-> getWidth(node.initializer)]
            ELSE None

\* visit, from the k-th node on
RECURSIVE visit(_, _, _, _, _)
visit(lt, files, wd, file, k) ==
    IF k > Len(file.nodes) THEN <<>>
    ELSE LET node == file.nodes[k]
             diagnostic ==
                 IF node.kind = "VariableDeclaration" /\ node.initializer # NoInitializer
                 THEN checkVariableDeclaration(lt, files, wd, file, node)
                 ELSE None
         IN (IF diagnostic # None THEN <<diagnostic>> ELSE <<>>)
            \o visit(lt, files, wd, file, k + 1)

\* checkFile
checkFile(lt, files, wd, sourceFile) == visit(lt, files, wd, sourceFile, 1)

\* run, from the k-th source file on
RECURSIVE runFrom(_, _, _, _)
runFrom(lt, files, wd, k) ==
    IF k > Len(lt.program) THEN <<>>
    ELSE (IF ~lt.program[k].isDeclarationFile
          THEN checkFile(lt, files, wd, lt.program[k]) ELSE <<>>)
         \o runFrom(lt, files, wd, k + 1)

\* run
run(lt, files, wd) == runFrom(lt, files, wd, 1)

----------------------------------------------------------------------------
\* Language-service plugin (linter.ts): createPathLinterPlugin

\* program.getSourceFile(fileName): the source file of that name, or None
getSourceFile(prog, fileName) ==
    IF \E k \in 1..Len(prog) : prog[k].fileName = fileName
    THEN prog[CHOOSE k \in 1..Len(prog) :
                 /\ prog[k].fileName = fileName
                 /\ \A j \in 1..(k - 1) : prog[j].fileName # fileName]
    ELSE None

\* Reflect.get(target, prop): the target's own value, undefined when it has none
ReflectGet(target, prop) ==
    IF prop \in DOMAIN target.props THEN target.props[prop] ELSE "undefined"

\* the arrow function the get trap returns for getSemanticDiagnostics
Wrapper == "(fileName) => [...originalDiagnostics, ...customDiagnostics]"

\* the Proxy's get trap
proxyGet(target, prop) ==
    IF prop = "getSemanticDiagnostics" THEN Wrapper ELSE ReflectGet(target, prop)

\* the wrapper with the two lists combined in the other order
semanticDiagnostics_CustomFirst(lt, target, prog, files, wd, fileName) ==
    LET originalDiagnostics == target.getSemanticDiagnostics[fileName]
        sourceFile == getSourceFile(prog, fileName)
    IN IF sourceFile = None THEN originalDiagnostics
       ELSE checkFile(lt, files, wd, sourceFile) \o originalDiagnostics

\* the wrapper: target.getSemanticDiagnostics(fileName), then the linter's
\* checkFile on the program's source file of that name
semanticDiagnostics(lt, target, prog, files, wd, fileName) ==
    LET originalDiagnostics == target.getSemanticDiagnostics[fileName]
        sourceFile == getSourceFile(prog, fileName)
    IN IF sourceFile = None THEN originalDiagnostics
       ELSE LET customDiagnostics == checkFile(lt, files, wd, sourceFile)
            IN originalDiagnostics \o customDiagnostics

----------------------------------------------------------------------------
\* What the claims about the validators speak of

\* the project root of the environment: the nearest marked directory among the
\* working directory and its ancestors
HasProjectRoot == MarkedFrom(Undefined) # {}
ProjectRoot == Nearest(MarkedFrom(Undefined))

\* path p lies in the directory subtree of root: root's segments begin p's
IsWithin(root, p) ==
    LET r == SelectSeq(Split(root), LAMBDA g : g # <<>>)
        q == SelectSeq(Split(p), LAMBDA g : g # <<>>)
    IN Len(r) <= Len(q) /\ SubSeq(q, 1, Len(r)) = r

\* where a candidate resolves: joined with the project root when it is relative
ResolvedCandidate(chars) == resolve(cwd, ProjectRoot, chars)

ForbiddenChars == {60, 62, 58, 34, 124, 63, 42} \cup 0..31
HasForbiddenChar(chars) == \E i \in 1..Len(chars) : chars[i] \in ForbiddenChars

StartsDotSlash(chars) ==
    \/ (Len(chars) >= 2 /\ chars[1] = DOT /\ chars[2] = SLASH)
    \/ (Len(chars) >= 3 /\ chars[1] = DOT /\ chars[2] = DOT /\ chars[3] = SLASH)

\* the message a validator throws with: the supplied one, or the default
DefaultMessage(fn) ==
    CASE fn = "FilePath" -> "Invalid file path"
      [] fn = "FolderPath" -> "Invalid folder path"
      [] fn = "AnyPath" -> "Invalid path"
MessageOf(call) ==
    IF call.errorMessage.type = "string" /\ call.errorMessage.text # ""
    THEN call.errorMessage.text ELSE DefaultMessage(call.fn)

Called == vcall # None
CalledWithString == Called /\ vcall.pathStr.type = "string"

\* C1: a candidate accepted by FilePath, FolderPath or AnyPath does not
\* resolve, joined with the project root when relative, to a location outside
\* the project root directory subtree.
C1_AcceptedStaysInsideRoot ==
    (CalledWithString /\ HasProjectRoot /\ vres.kind = "return") =>
        IsWithin(ProjectRoot, ResolvedCandidate(vcall.pathStr.chars))

\* C2: a candidate starting with ./ or ../ that passes the type, non-empty and
\* character checks and resolves outside the project root makes the validator
\* fail with its message suffixed ": path escapes project root".
C2_EscapeIsRejected ==
    (/\ CalledWithString /\ HasProjectRoot
     /\ StartsDotSlash(vcall.pathStr.chars)
     /\ ~HasForbiddenChar(vcall.pathStr.chars)
     /\ ~IsWithin(ProjectRoot, ResolvedCandidate(vcall.pathStr.chars))) =>
        vres = Threw(MessageOf(vcall) \o ": path escapes project root")

\* C3 as claimed: every non-empty string without forbidden characters that
\* does not start with ./ or ../ is returned unchanged by all three validators.
C3_NonEmptyBareAccepted ==
    (/\ CalledWithString
     /\ vcall.pathStr.chars # <<>>
     /\ ~HasForbiddenChar(vcall.pathStr.chars)
     /\ ~StartsDotSlash(vcall.pathStr.chars)) =>
        vres = Returned(vcall.pathStr)

\* C3 (amended): every string that is non-empty after trimming whitespace,
\* has no forbidden character and does not start with ./ or ../ is returned
\* unchanged by all three validators, whether or not the path exists.
C3_NonBlankBareAccepted ==
    (/\ CalledWithString
     /\ \E i \in 1..Len(vcall.pathStr.chars) : ~IsWhiteSpace(vcall.pathStr.chars[i])
     /\ ~HasForbiddenChar(vcall.pathStr.chars)
     /\ ~StartsDotSlash(vcall.pathStr.chars)) =>
        vres = Returned(vcall.pathStr)

\* C3 witness: an absolute path that does not exist, and lies outside the
\* project root, was returned
C3_Witness ==
    /\ CalledWithString /\ HasProjectRoot
    /\ isAbsolute(vcall.pathStr.chars)
    /\ resolve(cwd, <<>>, vcall.pathStr.chars) \notin fs
    /\ vres = Returned(vcall.pathStr)

\* C4: every string with one of < > : " | ? * or a control character
\* 0x00-0x1F makes all three validators throw; none returns it.
C4_ForbiddenCharRejected ==
    (CalledWithString /\ HasForbiddenChar(vcall.pathStr.chars)) => vres.kind = "throw"

\* C4 witness: a candidate whose only forbidden character is a control
\* character, and that is not blank, was rejected
C4_Witness ==
    /\ CalledWithString
    /\ \E i \in 1..Len(vcall.pathStr.chars) : vcall.pathStr.chars[i] = 9
    /\ \E i \in 1..Len(vcall.pathStr.chars) : ~IsWhiteSpace(vcall.pathStr.chars[i])
    /\ \A i \in 1..Len(vcall.pathStr.chars) : vcall.pathStr.chars[i] # 60
    /\ vres.kind = "throw"

\* a string made of whitespace only, the empty string included
IsBlank(chars) == \A i \in 1..Len(chars) : IsWhiteSpace(chars[i])

\* C11: each validator reports the first failing step in the order type
\* check, non-empty check, character check, containment check: a candidate
\* that is not a string or is whitespace only fails with exactly the message
\* (supplied or default), a candidate that passes those two and has a
\* forbidden character fails with the message suffixed ": contains invalid
\* characters" even when it would escape the project root, and the suffix
\* ": path escapes project root" is produced only when the three earlier
\* steps pass.
C11_FirstFailingStepReported ==
    Called =>
        LET p == vcall.pathStr
            message == MessageOf(vcall)
        IN /\ p.type # "string" => vres = Threw(message)
           /\ (p.type = "string" /\ IsBlank(p.chars)) => vres = Threw(message)
           /\ (p.type = "string" /\ ~IsBlank(p.chars) /\ HasForbiddenChar(p.chars)) =>
                 vres = Threw(message \o ": contains invalid characters")
           /\ vres = Threw(message \o ": path escapes project root") =>
                 /\ p.type = "string"
                 /\ ~IsBlank(p.chars)
                 /\ ~HasForbiddenChar(p.chars)

\* C11 witness: a candidate starting with ../ that has a forbidden character
\* and resolves outside the project root was rejected for its characters,
\* with the supplied message
C11_Witness ==
    /\ CalledWithString /\ HasProjectRoot
    /\ vcall.errorMessage = Msg("Custom error")
    /\ StartsDotSlash(vcall.pathStr.chars)
    /\ HasForbiddenChar(vcall.pathStr.chars)
    /\ ~IsWithin(ProjectRoot, ResolvedCandidate(vcall.pathStr.chars))
    /\ vres = Threw("Custom error: contains invalid characters")

\* the static checker constructed in the environment of the validator call
CheckerHere == newPathLinter(fs, cwd, NoProgram, NoOptions)

\* C12: for every project root and every non-empty candidate starting with
\* ./ or ../, the static checker's checks before the existence probe (the
\* forbidden-character test, then path.relative from the project root neither
\* starting with ".." nor absolute) accept the candidate exactly when the
\* runtime validator's character and containment steps accept it.
C12_StaticMatchesRuntime ==
    (/\ CalledWithString
     /\ StartsDotSlash(vcall.pathStr.chars)
     /\ CheckerHere.kind = "return") =>
        (passesBeforeExists(CheckerHere.value, cwd, vcall.pathStr.chars)
            <=> vres.kind = "return")

----------------------------------------------------------------------------
\* Linter runs: one environment and program, PathLinter constructed and run
\* with each option

FilePathStr == TypeReference(Identifier("FilePathStr"))
FolderPathStr == TypeReference(Identifier("FolderPathStr"))
AnyPathStr == TypeReference(Identifier("AnyPathStr"))

\* literal texts:  ""  a  b  ..a  ..  ../ab  ./a  /a/a  /ab  a<  package.json
LitEmpty == <<>>
LitA == <<97>>
LitB == <<98>>
LitDotDotA == <<46, 46, 97>>
LitParent == <<46, 46>>
LitSibling == <<46, 46, 47, 97, 98>>
LitDotSlashA == <<46, 47, 97>>
LitInvalid == <<97, 60>>
LiteralTexts ==
    {LitEmpty, LitA, LitB, LitDotDotA, LitParent, LitSibling, LitDotSlashA,
     DirAA, DirAB, LitInvalid, markers[2]}

\* the declarations a file is made of
Declarations ==
    {VariableDeclaration(FilePathStr, StringLiteral(t)) : t \in LiteralTexts}
    \cup {VariableDeclaration(FilePathStr, i) :
            i \in {NumericLiteral, TemplateLiteral(LitB), NoInitializer}}
    \cup {VariableDeclaration(FolderPathStr, StringLiteral(t)) : t \in {LitA, LitB, markers[2]}}
    \cup {VariableDeclaration(AnyPathStr, StringLiteral(t)) : t \in {LitA, LitB}}
    \cup {VariableDeclaration(TypeReference(QualifiedName(Identifier("lp"), Identifier("FilePathStr"))),
                              StringLiteral(t)) : t \in {LitA, LitB}}
    \cup {VariableDeclaration(t, StringLiteral(LitB)) :
            t \in {TypeReference(QualifiedName(Identifier("FilePathStr"), Identifier("Other"))),
                   TypeReference(Identifier("Other")),
                   KeywordType("StringKeyword"),
                   NoType}}
    \cup {VariableDeclaration(KeywordType("NumberKeyword"), NumericLiteral)}

RECURSIVE DeclSeqs(_)
DeclSeqs(n) ==
    IF n = 0 THEN {<<>>}
    ELSE LET shorter == DeclSeqs(n - 1)
         IN shorter \cup {Append(q, d) : q \in shorter, d \in Declarations}

\* lib.d.ts: a declaration file, which run() skips
LibFile == SourceFile("lib.d.ts", TRUE, <<VariableDeclaration(FilePathStr, StringLiteral(LitB))>>)

\* the programs: test.ts with a type alias and up to MaxDecls declarations, and lib.d.ts
Programs ==
    {<<SourceFile("test.ts", FALSE, <<TypeAliasDeclaration>> \o q), LibFile>> :
        q \in DeclSeqs(MaxDecls)}

\* a file ..a in directory d
DotDotAIn(d) == ChildOf(d, LitDotDotA)

\* working directory and filesystem of a linter run: the root is the working
\* directory or its parent
LinterEnvs ==
    {<<DirA, Dirs \cup {packageJsonIn(DirA), DotDotAIn(DirA)}>>,
     <<DirAA, Dirs \cup {packageJsonIn(DirA), DotDotAIn(DirA)}>>}

InitLint ==
    /\ \E e \in LinterEnvs : cwd = e[1] /\ fs = e[2]
    /\ program \in Programs
    /\ linter = NoLinter /\ runs = NoRuns
    /\ RestOfResolver /\ RestOfValidators /\ RestOfPlugin

\* new PathLinter(program, options).run(), once for each option
LintRun(o) ==
    /\ runs[o] = None
    /\ \E made \in {newPathLinter(fs, cwd, program, Options(o))} :
       /\ linter' = IF made.kind = "throw" THEN NoLinter ELSE made.value
       /\ runs' = [runs EXCEPT ![o] = IF made.kind = "throw" THEN made
                                      ELSE Returned(run(made.value, fs, cwd))]
       /\ UNCHANGED <<cwd, fs, program, resolverVars, validatorVars, pluginVars>>

NextLint == \E o \in RunOptions : LintRun(o)

SpecLint == InitLint /\ [][NextLint]_vars

----------------------------------------------------------------------------
\* What the claims about the linter speak of

MarkerTypeNames == {"FilePathStr", "FolderPathStr", "AnyPathStr"}

\* the rightmost name segment of a type reference
RightmostName(typeName) ==
    IF typeName.kind = "QualifiedName" THEN typeName.right.text ELSE typeName.text

\* the declared type is one of the three marker aliases
IsMarkerTyped(node) ==
    /\ node.type.kind = "TypeReference"
    /\ RightmostName(node.type.typeName) \in MarkerTypeNames

\* a marker-typed variable declaration initialized with a string literal
IsMarkerLiteral(node) ==
    /\ node.kind = "VariableDeclaration"
    /\ node.initializer.kind = "StringLiteral"
    /\ IsMarkerTyped(node)

\* the runs that returned diagnostics
Ran(o) == runs[o] # None /\ runs[o].kind = "return"

\* the diagnostics of a run located at a node of a file
DiagnosticsAt(o, file, node) ==
    SelectSeq(runs[o].value, LAMBDA d : d.file = file.fileName /\ d.start = node.start)

DiagnosticsOf(o, file) == SelectSeq(runs[o].value, LAMBDA d : d.file = file.fileName)

\* C7: a marker-typed declaration whose string literal has no forbidden
\* character and resolves inside the project root gets no diagnostic when the
\* resolved path exists, and exactly one, with the 'does not exist or is not
\* accessible' message, when it does not.
C7_ExistenceDecides ==
    \A o \in RunOptions : Ran(o) =>
        \A k \in 1..Len(program[1].nodes) :
            LET node == program[1].nodes[k]
                text == node.initializer.text
                resolved == ResolvedCandidate(text)
                found == DiagnosticsAt(o, program[1], node)
            IN (/\ IsMarkerLiteral(node)
                /\ ~HasForbiddenChar(text)
                /\ IsWithin(ProjectRoot, resolved)) =>
                   IF resolved \in fs
                   THEN found = <<>>
                   ELSE /\ Len(found) = 1
                        /\ found[1].messageText =
                             <<"Invalid path: \"", text, "\" does not exist or is not accessible">>

\* C8: no diagnostic is produced for a declaration whose declared type is not
\* one of the three marker aliases, and the diagnostics of a file are never
\* more than its marker-typed string-literal declarations.
C8_OnlyMarkerTypedFlagged ==
    \A o \in RunOptions : Ran(o) =>
        \A f \in 1..Len(program) :
            /\ \A k \in 1..Len(program[f].nodes) :
                  ~IsMarkerLiteral(program[f].nodes[k]) =>
                      DiagnosticsAt(o, program[f], program[f].nodes[k]) = <<>>
            /\ Len(DiagnosticsOf(o, program[f])) <=
                  Cardinality({k \in 1..Len(program[f].nodes) : IsMarkerLiteral(program[f].nodes[k])})

\* C8 witness: a run over a file that declares a non-existent path under a
\* type whose rightmost name is no marker alias, though its left segment is
C8_Witness ==
    /\ Ran("error")
    /\ \E k \in 1..Len(program[1].nodes) :
          /\ program[1].nodes[k].kind = "VariableDeclaration"
          /\ program[1].nodes[k].type.kind = "TypeReference"
          /\ program[1].nodes[k].type.typeName.kind = "QualifiedName"
          /\ program[1].nodes[k].type.typeName.left.text = "FilePathStr"
          /\ program[1].nodes[k].initializer = StringLiteral(LitB)
    /\ ResolvedCandidate(LitB) \notin fs

\* a diagnostic without its category
WithoutCategory(d) ==
    [code |-> d.code, messageText |-> d.messageText, file |-> d.file,
     start |-> d.start, length |-> d.length]

CategoryOf(o) ==
    CASE o = "warn" -> "Warning"
      [] o = "off" -> "Suggestion"
      [] o = "error" -> "Error"
      [] o = "absent" -> "Error"

----------------------------------------------------------------------------
\* Plugin runs: create(info), then property reads and diagnostics requests
\* through the Proxy

FileNames == {"test.ts", "lib.d.ts", "missing.ts"}

\* a diagnostic of the wrapped service
TsDiagnostic(file, code, start) ==
    [kind |-> "Diagnostic", category |-> "Error", code |-> code,
     messageText |-> <<"Type 'number' is not assignable to type 'string'.">>,
     file |-> file, start |-> start, length |-> 4]

\* a language service: its properties, and what its getSemanticDiagnostics
\* answers for each file name
LanguageService(own, testDiagnostics) ==
    [kind |-> "LanguageService",
     props |-> [p \in own |-> "function " \o p],
     getSemanticDiagnostics |->
        [f \in FileNames |->
            CASE f = "test.ts" -> testDiagnostics
              [] f = "lib.d.ts" -> <<>>
              [] f = "missing.ts" -> <<TsDiagnostic("missing.ts", 6053, 0)>>]]

Services ==
    {LanguageService(own, d) :
        own \in {{"getProgram", "getSemanticDiagnostics", "getSyntacticDiagnostics", "dispose"},
                 {"getProgram", "getSemanticDiagnostics"}},
        d \in {<<>>,
               <<TsDiagnostic("test.ts", 2322, 50)>>,
               <<TsDiagnostic("test.ts", 2322, 50), TsDiagnostic("test.ts", 2345, 90)>>}}

\* the properties read through the Proxy
PropertyNames ==
    {"getSemanticDiagnostics", "getProgram", "getSyntacticDiagnostics", "dispose", "toString"}

\* the programs getProgram() answers with
PluginPrograms ==
    {<<SourceFile("test.ts", FALSE, <<TypeAliasDeclaration>> \o q), LibFile>> :
        q \in {<<>>,
               <<VariableDeclaration(FilePathStr, StringLiteral(LitA))>>,
               <<VariableDeclaration(FilePathStr, StringLiteral(LitB)),
                 VariableDeclaration(FolderPathStr, StringLiteral(LitInvalid))>>}}

\* working directory and filesystem of a plugin run; the last has no project root
PluginEnvs ==
    {<<DirAA, Dirs \cup {packageJsonIn(DirA)}>>, <<DirA, Dirs>>}

InitPlugin ==
    /\ \E e \in PluginEnvs : cwd = e[1] /\ fs = e[2]
    /\ program \in PluginPrograms
    /\ service \in Services
    /\ linter = NoLinter /\ runs = NoRuns
    /\ proxy = FALSE /\ lastProp = None /\ lastDiag = None
    /\ RestOfResolver /\ RestOfValidators

\* createPathLinterPlugin(options).create(info): the linter is constructed and
\* the Proxy returned; when the constructor throws there is no Proxy
PluginCreate(o) ==
    /\ ~proxy
    /\ \E made \in {newPathLinter(fs, cwd, program, Options(o))} :
          /\ linter' = IF made.kind = "throw" THEN NoLinter ELSE made.value
          /\ proxy' = (made.kind = "return")
    /\ UNCHANGED <<cwd, fs, program, runs, service, lastProp, lastDiag,
                   resolverVars, validatorVars>>

\* proxy[prop]
ProxyGet(prop) ==
    /\ proxy
    /\ lastProp' = [prop |-> prop, value |-> proxyGet(service, prop)]
    /\ UNCHANGED <<cwd, fs, program, linter, runs, service, proxy, lastDiag,
                   resolverVars, validatorVars>>

\* proxy.getSemanticDiagnostics(fileName)
ProxyGetSemanticDiagnostics(fileName) ==
    /\ proxy
    /\ lastDiag' = [fileName |-> fileName,
                    result |-> semanticDiagnostics(linter, service, program, fs, cwd, fileName)]
    /\ UNCHANGED <<cwd, fs, program, linter, runs, service, proxy, lastProp,
                   resolverVars, validatorVars>>

\* the host rebuilds the program: getProgram() answers with another one
ProgramChanged(p) ==
    /\ proxy
    /\ p # program
    /\ program' = p
    /\ lastDiag' = None
    /\ UNCHANGED <<cwd, fs, linter, runs, service, proxy, lastProp,
                   resolverVars, validatorVars>>

NextPlugin ==
    \/ \E o \in RunOptions : PluginCreate(o)
    \/ \E prop \in PropertyNames : ProxyGet(prop)
    \/ \E f \in FileNames : ProxyGetSemanticDiagnostics(f)
    \/ \E p \in PluginPrograms : ProgramChanged(p)

SpecPlugin == InitPlugin /\ [][NextPlugin]_vars

----------------------------------------------------------------------------
\* What the claim about the plugin speaks of

\* the program has a source file of that name
HasSourceFile(fileName) == \E k \in 1..Len(program) : program[k].fileName = fileName
TheSourceFile(fileName) == program[CHOOSE k \in 1..Len(program) : program[k].fileName = fileName]

\* C10: every property read through the wrapper gives what the wrapped
\* service gives, except getSemanticDiagnostics; getSemanticDiagnostics(fileName)
\* returns the wrapped service's diagnostics for the file followed by the path
\* checker's for the same file, and the wrapped service's alone when the
\* program has no source file of that name.
C10_ProxyForwardsAndAppends ==
    /\ (lastProp # None /\ lastProp.prop # "getSemanticDiagnostics") =>
          lastProp.value = (IF lastProp.prop \in DOMAIN service.props
                            THEN service.props[lastProp.prop] ELSE "undefined")
    /\ (lastProp # None /\ lastProp.prop = "getSemanticDiagnostics") =>
          lastProp.value # service.props["getSemanticDiagnostics"]
    /\ lastDiag # None =>
          LET original == service.getSemanticDiagnostics[lastDiag.fileName]
              n == Len(original)
          IN IF ~HasSourceFile(lastDiag.fileName)
             THEN lastDiag.result = original
             ELSE /\ Len(lastDiag.result) >= n
                  /\ SubSeq(lastDiag.result, 1, n) = original
                  /\ SubSeq(lastDiag.result, n + 1, Len(lastDiag.result)) =
                        checkFile(linter, fs, cwd, TheSourceFile(lastDiag.fileName))

\* C10 witness: a request that returned a diagnostic of the wrapped service
\* followed by a path diagnostic, after a forwarded property read
C10_Witness ==
    /\ lastProp # None /\ lastProp.prop = "getProgram"
    /\ lastDiag # None /\ lastDiag.fileName = "test.ts"
    /\ Len(lastDiag.result) >= 2
    /\ lastDiag.result[1].code = 2322
    /\ lastDiag.result[Len(lastDiag.result)].code = 1001

----------------------------------------------------------------------------
\* Runs without a project root: validator calls and PathLinter construction
\* where no directory from the working directory up to / holds a marker

\* working directory and filesystem: nothing is marked, or only a directory
\* that is not an ancestor of the working directory
NoRootEnvs ==
    {<<DirAA, Dirs \cup {packageJsonIn(DirAB)}>>,
     <<DirA, Dirs>>,
     <<DirRoot, Dirs \cup {packageJsonIn(DirAB)}>>}

InitNoRoot ==
    /\ \E e \in NoRootEnvs : cwd = e[1] /\ fs = e[2]
    /\ RestOfResolver /\ RestOfValidators /\ RestOfLinter /\ RestOfPlugin

\* new PathLinter(program, options), called while no validator call is in
\* progress: the instance, or the error thrown
ConstructPathLinter(o) ==
    /\ vcall = None
    /\ linter = NoLinter
    /\ \E made \in {newPathLinter(fs, cwd, program, Options(o))} :
          linter' = IF made.kind = "throw" THEN made ELSE made.value
    /\ UNCHANGED <<cwd, fs, program, runs, resolverVars, validatorVars, pluginVars>>

NextNoRoot ==
    \/ CallFilePath
    \/ CallFolderPath
    \/ CallAnyPath
    \/ ValidatorReturned
    \/ \E o \in RunOptions : ConstructPathLinter(o)

SpecNoRoot == InitNoRoot /\ [][NextNoRoot]_vars

\* C13: when no directory from the working directory up to the filesystem
\* root contains a marker, a validator call on a candidate starting with ./
\* or ../ that passes the type, non-empty and character checks fails with the
\* resolver's root-not-found error and not with the caller's message,
\* constructing a PathLinter fails with the same error, and a validator call
\* on a candidate that does not start with ./ or ../ is unaffected: it does
\* not fail with that error, and is returned when it passes the three checks.
C13_RootNotFoundPropagates ==
    ~HasProjectRoot =>
        /\ (/\ CalledWithString
            /\ ~IsBlank(vcall.pathStr.chars)
            /\ ~HasForbiddenChar(vcall.pathStr.chars)
            /\ StartsDotSlash(vcall.pathStr.chars)) =>
               vres = Threw(NotFoundMessage)
        /\ linter # NoLinter => linter = Threw(NotFoundMessage)
        /\ (CalledWithString /\ ~StartsDotSlash(vcall.pathStr.chars)) =>
               /\ vres # Threw(NotFoundMessage)
               /\ (~IsBlank(vcall.pathStr.chars) /\ ~HasForbiddenChar(vcall.pathStr.chars)) =>
                      vres = Returned(vcall.pathStr)

\* C13 witness: without a project root the constructor has thrown, and a
\* validator called with a custom message on a candidate starting with ./ has
\* thrown the resolver's error
C13_Witness ==
    /\ ~HasProjectRoot
    /\ linter = Threw(NotFoundMessage)
    /\ CalledWithString
    /\ vcall.errorMessage = Msg("Custom error")
    /\ startsWith(vcall.pathStr.chars, <<DOT, SLASH, 97>>)
    /\ vres = Threw(NotFoundMessage)

====
